---- MODULE Spec2Model ----
(***************************************************************************)
(* woodpantry-matching: the scoring engine (internal/service/scoring.go)   *)
(* and the two handlers that call it (internal/api/handlers.go).           *)
(*                                                                         *)
(* Two specifications:                                                     *)
(*   SpecScore  scoreRecipe as a pure function of (recipe, pantry set,     *)
(*              substitute map, maxMissing);                               *)
(*   Spec       one request: handler -> Service.Score with its two         *)
(*              fan-out phases (substitute prefetch, name resolution).     *)
(***************************************************************************)
EXTENDS Integers, Sequences, FiniteSets, TLC

(***************************************************************************)
(* Bounds of the model.                                                    *)
(***************************************************************************)
NumIds == 2
MaxIngs == 3
MaxSubs == 2
MaxMissingArg == 2
MaxRecipes == 2
MaxCatIngs == 2
MaxReplySubs == 1

Ids == 1..NumIds

(***************************************************************************)
(* float64, for the values scoreRecipe can produce.  A value is            *)
(* <<exp, a, b, c>>: the 53-bit significand a*2^36 + b*2^18 + c with       *)
(* 2^16 <= a < 2^17, value significand * 2^(exp-52).  Zero has the least   *)
(* exponent and a zero significand, so that the lexicographic order of     *)
(* the tuples is the numeric order; NaN (0/0) compares false with          *)
(* everything.  Every operation rounds to nearest, ties to even, as the    *)
(* hardware does.                                                          *)
(***************************************************************************)
LimbBase == 2^18
TopLimbMin == 2^16
F64Zero == <<-1023, 0, 0, 0>>
F64NaN == <<1024, 1, 0, 0>>

F64Norm(e, a, b, c) ==
    LET c1 == c % LimbBase
        b0 == b + (c \div LimbBase)
        b1 == b0 % LimbBase
        a1 == a + (b0 \div LimbBase)
    IN  IF a1 = 2 * TopLimbMin THEN <<e + 1, TopLimbMin, 0, 0>>
        ELSE <<e, a1, b1, c1>>

\* floor(log2(n/d)) for n, d > 0
FloorLog2(n, d) ==
    CHOOSE e \in -10..10 :
        IF e >= 0 THEN d * 2^e <= n /\ n < d * 2^(e + 1)
        ELSE d <= n * 2^(-e) /\ n * 2^(-e - 1) < d

\* float64(n) / float64(d) for small naturals n, d (d > 0), correctly rounded
F64Div(n, d) ==
    IF n = 0 THEN (IF d = 0 THEN F64NaN ELSE F64Zero)
    ELSE LET e == FloorLog2(n, d)
             num == IF e >= 0 THEN n ELSE n * 2^(-e)
             den == IF e >= 0 THEN d * 2^e ELSE d
             a == (num * TopLimbMin) \div den
             r1 == (num * TopLimbMin) % den
             b == (r1 * LimbBase) \div den
             r2 == (r1 * LimbBase) % den
             c == (r2 * LimbBase) \div den
             r3 == (r2 * LimbBase) % den
             up == 2 * r3 > den \/ (2 * r3 = den /\ c % 2 = 1)
         IN  F64Norm(e, a, b, c + (IF up THEN 1 ELSE 0))

\* x * float64(k) for a small natural k > 0, correctly rounded
F64MulInt(x, k) ==
    IF x = F64Zero \/ x = F64NaN THEN x
    ELSE LET p0 == x[4] * k
             p1 == x[3] * k + (p0 \div LimbBase)
             top == x[2] * k + (p1 \div LimbBase)
             c0 == p0 % LimbBase
             c1 == p1 % LimbBase
             s == CHOOSE n \in 0..17 :
                      TopLimbMin <= top \div 2^n /\ top \div 2^n < 2 * TopLimbMin
             low == c0 % 2^s
             nc == (c0 \div 2^s) + (c1 % 2^s) * 2^(18 - s)
             nb == (c1 \div 2^s) + (top % 2^s) * 2^(18 - s)
             na == top \div 2^s
             up == s > 0 /\ (2 * low > 2^s \/ (2 * low = 2^s /\ nc % 2 = 1))
         IN  F64Norm(x[1] + s, na, nb, nc + (IF up THEN 1 ELSE 0))

F64Less(x, y) ==
    /\ x # F64NaN
    /\ y # F64NaN
    /\ \E k \in 1..4 : x[k] < y[k] /\ \A j \in 1..(k - 1) : x[j] = y[j]

F64Hundred == F64MulInt(F64Div(1, 1), 100)

(***************************************************************************)
(* Data.  A RecipeIngredient keeps the four fields scoreRecipe reads; a    *)
(* Recipe keeps its ID and its ingredients (title, tags and the minutes    *)
(* are carried along unread); an IngredientSubstitute keeps SubstituteID   *)
(* (ratio and notes are never read).                                       *)
(***************************************************************************)
Quantities == {1, 2}
Units == {"g"}

RecipeIngredients ==
    [IngredientID : Ids, Quantity : Quantities, Unit : Units, IsOptional : BOOLEAN]

Range(s) == {s[j] : j \in 1..Len(s)}

SeqsUpTo(S, n) == UNION {[1..k -> S] : k \in 0..n}

IngredientLists == SeqsUpTo(RecipeIngredients, MaxIngs)

SubstituteLists == SeqsUpTo([SubstituteID : Ids], MaxSubs)

\* a Go map[string][]IngredientSubstitute: a function on the keys present
SubsMaps == UNION {[K -> SubstituteLists] : K \in SUBSET Ids}

\* a slip: the map is read under a key that is never present
MapGetNone(subsMap, id) == <<>>

\* subsMap[id] of a Go map: the nil slice when the key is absent
MapGet(subsMap, id) == IF id \in DOMAIN subsMap THEN subsMap[id] ELSE <<>>

Required(recipe) == SelectSeq(recipe.Ingredients, LAMBDA ing : ~ing.IsOptional)

\* a slip: only the first substitute of the list is looked at
FoundSubFirstOnly(subs, j, pantrySet) ==
    Len(subs) >= 1 /\ subs[1].SubstituteID \in pantrySet

\* a slip: the presence test of the substitute is negated
RECURSIVE FoundSubNegated(_, _, _)
FoundSubNegated(subs, j, pantrySet) ==
    IF j > Len(subs) THEN FALSE
    ELSE IF subs[j].SubstituteID \notin pantrySet THEN TRUE
    ELSE FoundSubNegated(subs, j + 1, pantrySet)

\* the inner loop: is some substitute of the list in the pantry
RECURSIVE FoundSub(_, _, _)
FoundSub(subs, j, pantrySet) ==
    IF j > Len(subs) THEN FALSE
    ELSE IF subs[j].SubstituteID \in pantrySet THEN TRUE
    ELSE FoundSub(subs, j + 1, pantrySet)

NewMissing(ing) ==
    [IngredientID |-> ing.IngredientID, Name |-> "",
     Quantity |-> ing.Quantity, Unit |-> ing.Unit]

\* the loop over required: <<missing, matched>> after ingredients i..Len
RECURSIVE ScoreLoop(_, _, _, _, _, _)
ScoreLoop(required, i, pantrySet, subsMap, missing, matched) ==
    IF i > Len(required) THEN <<missing, matched>>
    ELSE LET ing == required[i]
         IN  IF ing.IngredientID \in pantrySet
             THEN ScoreLoop(required, i + 1, pantrySet, subsMap, missing, matched + 1)
             ELSE IF FoundSub(MapGet(subsMap, ing.IngredientID), 1, pantrySet)
             THEN ScoreLoop(required, i + 1, pantrySet, subsMap, missing, matched + 1)
             ELSE ScoreLoop(required, i + 1, pantrySet, subsMap,
                            Append(missing, NewMissing(ing)), matched)

\* a slip: the percentage taken before the division
CoverageOfMulFirst(matched, total) == F64Div(100 * matched, total)

CoverageOf(matched, total) == F64MulInt(F64Div(matched, total), 100)

CanMakeOf(missing, maxMissing) == Len(missing) <= maxMissing

\* a slip: no early return for a recipe without required ingredients (0/0)
scoreRecipeNoEmptyCase(recipe, pantrySet, subsMap, maxMissing) ==
    LET required == Required(recipe)
        lp == ScoreLoop(required, 1, pantrySet, subsMap, <<>>, 0)
    IN  [Recipe |-> recipe,
         CoveragePct |-> CoverageOf(lp[2], Len(required)),
         MissingIngredients |-> lp[1],
         CanMake |-> CanMakeOf(lp[1], maxMissing)]

scoreRecipe(recipe, pantrySet, subsMap, maxMissing) ==
    LET required == Required(recipe)
    IN  IF Len(required) = 0
        THEN [Recipe |-> recipe, CoveragePct |-> F64Hundred,
              MissingIngredients |-> <<>>, CanMake |-> TRUE]
        ELSE LET lp == ScoreLoop(required, 1, pantrySet, subsMap, <<>>, 0)
             IN  [Recipe |-> recipe,
                  CoveragePct |-> CoverageOf(lp[2], Len(required)),
                  MissingIngredients |-> lp[1],
                  CanMake |-> CanMakeOf(lp[1], maxMissing)]

(***************************************************************************)
(* The state of SpecScore: one input of scoreRecipe and its result, then a  *)
(* pantry set that includes the first one and the result against it.       *)
(***************************************************************************)
VARIABLES sPc, sRecipe, sPantry, sSubs, sMax, sResult, sWider, sResultWider

varsScore == <<sPc, sRecipe, sPantry, sSubs, sMax, sResult, sWider, sResultWider>>


(***************************************************************************)
(* Spec: one request.  The handler parses its parameters and calls         *)
(* Service.Score, which fetches the pantry and the catalog, fans out one   *)
(* substitute lookup per required-but-missing id (allowSubs only), joins,  *)
(* scores, sorts and filters, then fans out one name lookup per id of the  *)
(* surviving missing lists, joins and copies the names.                    *)
(***************************************************************************)
VARIABLES
    pc,            \* where the request is
    route,         \* "GET" /matches or "POST" /matches/query
    allowSubs,     \* Score's arguments
    maxMissing,
    pantryRet,     \* "none", "ok", "err": what GetPantry returned
    recipesRet,    \* the same for GetRecipes
    nPantryCalls,  \* calls issued, per upstream
    nRecipeCalls,
    subCalls,
    nameCalls,
    pantryItems,   \* what GetPantry returned
    pantrySet,
    recipes,
    missingIDs,    \* the ids the prefetch loop ranges over
    subG,          \* per id, the lookup goroutine: "idle", "run", "got",
                   \* then "err", "nil" or "stored"
    subLocal,      \* per id, the goroutine's local subs
    subsMap,
    wg,            \* the prefetch WaitGroup's counter
    dictSubs,      \* per id, the list the dictionary held when it was asked
    results,       \* the scored results, sorted
    filtered,      \* the sorted, filtered results
    seen,          \* the ids resolveNames ranges over
    nameG,         \* as subG, for the name lookups
    nameLocal,
    nameMap,
    nwg,           \* resolveNames' WaitGroup counter
    scoreRet,      \* "none", "ok", "err": what Score returned
    respStatus,    \* the HTTP status written, 0 before
    respBody       \* the result list written

vars == <<pc, route, allowSubs, maxMissing, pantryRet, recipesRet, nPantryCalls,
          nRecipeCalls, subCalls, nameCalls, pantryItems, pantrySet, recipes,
          missingIDs, subG, subLocal, subsMap, wg, dictSubs, results, filtered, seen, nameG, nameLocal, nameMap, nwg,
          scoreRet, respStatus, respBody>>

EmptyMap == [k \in {} |-> <<>>]

CatalogIngredients ==
    [IngredientID : Ids, Quantity : {1}, Unit : Units, IsOptional : BOOLEAN]

CatalogIngredientLists == SeqsUpTo(CatalogIngredients, MaxCatIngs)

\* the catalog of n recipes with the ingredient lists f[1..n]; a recipe's ID
\* is its place in the catalog
CatalogOf(f, n) == [k \in 1..n |-> [ID |-> k, Ingredients |-> f[k]]]

\* a PantryItem keeps IngredientID, the one field Score reads
PantryReplies == {{[IngredientID |-> i] : i \in S} : S \in SUBSET Ids}

ReplySubs == SeqsUpTo([SubstituteID : Ids], MaxReplySubs)

DetailNames == {"salt", "dill"}

\* the max_missing query parameter as sent: absent, a decimal, or not a number
MaxMissingParams == {""} \cup {ToString(n) : n \in -1..MaxMissingArg} \cup {"many"}

\* strconv.Atoi on the parameters above
Atoi(s) ==
    IF \E n \in -1..MaxMissingArg : ToString(n) = s
    THEN [err |-> FALSE, n |-> CHOOSE n \in -1..MaxMissingArg : ToString(n) = s]
    ELSE [err |-> TRUE, n |-> 0]

RequestIdle ==
    /\ pc = "idle"
    /\ route = "none"
    /\ allowSubs = FALSE
    /\ maxMissing = 0
    /\ pantryRet = "none"
    /\ recipesRet = "none"
    /\ nPantryCalls = 0
    /\ nRecipeCalls = 0
    /\ subCalls = [i \in Ids |-> 0]
    /\ nameCalls = [i \in Ids |-> 0]
    /\ pantryItems = {}
    /\ pantrySet = {}
    /\ recipes = <<>>
    /\ missingIDs = {}
    /\ subG = [i \in Ids |-> "idle"]
    /\ subLocal = [i \in Ids |-> <<>>]
    /\ subsMap = EmptyMap
    /\ wg = 0
    /\ dictSubs = [i \in Ids |-> <<>>]
    /\ results = <<>>
    /\ filtered = <<>>
    /\ seen = {}
    /\ nameG = [i \in Ids |-> "idle"]
    /\ nameLocal = [i \in Ids |-> ""]
    /\ nameMap = EmptyMap
    /\ nwg = 0
    /\ scoreRet = "none"
    /\ respStatus = 0
    /\ respBody = <<>>

scoreVars == <<pantryRet, recipesRet, nPantryCalls, nRecipeCalls, subCalls,
               nameCalls, pantryItems, pantrySet, recipes, missingIDs, subG,
               subLocal, subsMap, wg, dictSubs, results, filtered, seen, nameG,
               nameLocal, nameMap, nwg, scoreRet>>

\* the handler's rejection: jsonError, Score is not called
Reject(r) ==
    /\ pc' = "done"
    /\ route' = r
    /\ respStatus' = 400
    /\ UNCHANGED <<allowSubs, maxMissing, respBody>>
    /\ UNCHANGED scoreVars

\* the handler's call svc.Score(ctx, subs, n)
CallScore(r, subs, n) ==
    /\ pc' = "pantry"
    /\ route' = r
    /\ allowSubs' = subs
    /\ maxMissing' = n
    /\ UNCHANGED <<respStatus, respBody>>
    /\ UNCHANGED scoreVars

\* max_missing of GET /matches: the default 0, or the parsed number
GetMaxMissing(s) == IF s = "" THEN 0 ELSE Atoi(s).n

GetRejects(s) == s # "" /\ (Atoi(s).err \/ Atoi(s).n < 0)

HandleGetMatches ==
    /\ pc = "idle"
    /\ \E subsParam \in {"", "true", "1"}, s \in MaxMissingParams :
          IF GetRejects(s) THEN Reject("GET")
          ELSE CallScore("GET", subsParam = "true", GetMaxMissing(s))
    /\ UNCHANGED varsScore

\* a slip: the body's max_missing passed on as sent
PostMaxMissingUnclamped(n) == n

\* max_missing of POST /matches/query, clamped
PostMaxMissing(n) == IF n < 0 THEN 0 ELSE n

HandlePostMatchQuery ==
    /\ pc = "idle"
    /\ \E decoded \in BOOLEAN, n \in -1..MaxMissingArg :
          IF ~decoded THEN Reject("POST")
          ELSE CallScore("POST", FALSE, PostMaxMissing(n))
    /\ UNCHANGED varsScore

\* Score returns (nil, err); the handler answers 502 with no result list
ReturnErr ==
    /\ scoreRet' = "err"
    /\ respStatus' = 502
    /\ pc' = "done"
    /\ UNCHANGED respBody

\* a slip: a failed dictionary lookup fails the request
ReturnOkUnlessLookupErr(list) ==
    IF \E id \in Ids : subG[id] = "err" \/ nameG[id] = "err"
    THEN ReturnErr
    ELSE /\ scoreRet' = "ok"
         /\ respStatus' = 200
         /\ respBody' = list
         /\ pc' = "done"

\* Score returns (list, nil); the handler answers 200 with the list
ReturnOk(list) ==
    /\ scoreRet' = "ok"
    /\ respStatus' = 200
    /\ respBody' = list
    /\ pc' = "done"

\* a slip: the error of a required fetch is dropped
FetchFailedNever(ret) == FALSE

\* if err != nil { return nil, ... } after a required fetch
FetchFailed(ret) == ret = "err"

GetPantry ==
    /\ pc = "pantry"
    /\ \E ret \in {"ok", "err"}, items \in PantryReplies :
          /\ nPantryCalls' = nPantryCalls + 1
          /\ pantryRet' = ret
          /\ IF FetchFailed(ret)
             THEN ReturnErr /\ UNCHANGED pantryItems
             ELSE /\ pantryItems' = (IF ret = "ok" THEN items ELSE {})
                  /\ pc' = "recipes"
                  /\ UNCHANGED <<scoreRet, respStatus, respBody>>
    /\ UNCHANGED <<dictSubs, results, route, allowSubs, maxMissing, recipesRet, nRecipeCalls, subCalls,
                   nameCalls, pantrySet, recipes, missingIDs, subG, subLocal, subsMap,
                   wg, filtered, seen, nameG, nameLocal, nameMap, nwg>>
    /\ UNCHANGED varsScore

\* the presence set built from the pantry items
PantrySetOf(items) == {item.IngredientID : item \in items}

\* a slip: the optional ingredients are not skipped
MissingIDsOfAnyAbsent(rs, pset) ==
    {ing.IngredientID :
        ing \in {x \in UNION {Range(rs[k].Ingredients) : k \in 1..Len(rs)} :
                    x.IngredientID \notin pset}}

\* the ids the prefetch looks up: required by some recipe, not in the pantry
MissingIDsOf(rs, pset) ==
    {ing.IngredientID :
        ing \in {x \in UNION {Range(rs[k].Ingredients) : k \in 1..Len(rs)} :
                    ~x.IsOptional /\ x.IngredientID \notin pset}}

GetRecipes ==
    /\ pc = "recipes"
    /\ \E ret \in {"ok", "err"}, n \in 0..MaxRecipes :
       \E f \in [1..n -> CatalogIngredientLists] :
          /\ nRecipeCalls' = nRecipeCalls + 1
          /\ recipesRet' = ret
          /\ IF FetchFailed(ret)
             THEN ReturnErr /\ UNCHANGED <<recipes, pantrySet, missingIDs>>
             ELSE /\ recipes' = (IF ret = "ok" THEN CatalogOf(f, n) ELSE <<>>)
                  /\ pantrySet' = PantrySetOf(pantryItems)
                  /\ missingIDs' = (IF allowSubs
                                    THEN MissingIDsOf(recipes', pantrySet')
                                    ELSE {})
                  /\ pc' = "subs"
                  /\ UNCHANGED <<scoreRet, respStatus, respBody>>
    /\ UNCHANGED <<dictSubs, results, route, allowSubs, maxMissing, pantryRet, nPantryCalls, subCalls,
                   nameCalls, pantryItems, subG, subLocal, subsMap, wg, filtered,
                   seen, nameG, nameLocal, nameMap, nwg>>
    /\ UNCHANGED varsScore

\* a slip: an unsynchronised store that loses the other entries
MapPutOverwrite(m, k, v) == [x \in {k} |-> v]

MapPut(m, k, v) == [x \in DOMAIN m \cup {k} |-> IF x = k THEN v ELSE m[x]]

\* wg.Add(1); go func(ingredientID) for one id of the range over missingIDs
LaunchSub(id) ==
    /\ pc = "subs"
    /\ id \in missingIDs
    /\ subG[id] = "idle"
    /\ subG' = [subG EXCEPT ![id] = "run"]
    /\ wg' = wg + 1
    /\ UNCHANGED <<dictSubs, results, pc, route, allowSubs, maxMissing, pantryRet, recipesRet,
                   nPantryCalls, nRecipeCalls, subCalls, nameCalls, pantryItems,
                   pantrySet, recipes, missingIDs, subLocal, subsMap, filtered, seen,
                   nameG, nameLocal, nameMap, nwg, scoreRet, respStatus, respBody>>
    /\ UNCHANGED varsScore

\* GetSubstitutes returns nil (404/405: the dictionary has no such endpoint), an
\* error (the dictionary holds a list that did not arrive) or the list; on the
\* first two the goroutine returns (deferred wg.Done)
SubFetch(id) ==
    /\ subG[id] = "run"
    /\ subCalls' = [subCalls EXCEPT ![id] = @ + 1]
    /\ \/ /\ subG' = [subG EXCEPT ![id] = "nil"]
          /\ wg' = wg - 1
          /\ UNCHANGED <<subLocal, dictSubs>>
       \/ \E held \in ReplySubs :
             /\ dictSubs' = [dictSubs EXCEPT ![id] = held]
             /\ \/ /\ subG' = [subG EXCEPT ![id] = "err"]
                   /\ wg' = wg - 1
                   /\ UNCHANGED subLocal
                \/ /\ subG' = [subG EXCEPT ![id] = "got"]
                   /\ subLocal' = [subLocal EXCEPT ![id] = held]
                   /\ UNCHANGED wg
    /\ UNCHANGED <<results, pc, route, allowSubs, maxMissing, pantryRet, recipesRet,
                   nPantryCalls, nRecipeCalls, nameCalls, pantryItems, pantrySet,
                   recipes, missingIDs, subsMap, filtered, seen, nameG, nameLocal,
                   nameMap, nwg, scoreRet, respStatus, respBody>>
    /\ UNCHANGED varsScore

\* mu.Lock(); subsMap[ingredientID] = subs; mu.Unlock(); then wg.Done
SubStore(id) ==
    /\ subG[id] = "got"
    /\ subsMap' = MapPut(subsMap, id, subLocal[id])
    /\ subG' = [subG EXCEPT ![id] = "stored"]
    /\ wg' = wg - 1
    /\ UNCHANGED <<subLocal, dictSubs, results, pc, route, allowSubs, maxMissing, pantryRet, recipesRet,
                   nPantryCalls, nRecipeCalls, subCalls, nameCalls, pantryItems,
                   pantrySet, recipes, missingIDs, filtered, seen, nameG, nameLocal,
                   nameMap, nwg, scoreRet, respStatus, respBody>>
    /\ UNCHANGED varsScore

\* a slip: the orchestrator goes on when the range loop is over, Wait left out
SubsJoinedNoWait == \A id \in missingIDs : subG[id] # "idle"

\* wg.Wait() returns: the range loop is over and the counter is zero
SubsJoined == (\A id \in missingIDs : subG[id] # "idle") /\ wg = 0

\* a slip: the tie on coverage is not broken
ResultLessNoTiebreak(x, y) == F64Less(y.CoveragePct, x.CoveragePct)

\* the comparison handed to sort.Slice
ResultLess(x, y) ==
    IF x.CoveragePct # y.CoveragePct
    THEN F64Less(y.CoveragePct, x.CoveragePct)
    ELSE Len(x.MissingIngredients) < Len(y.MissingIngredients)

\* sort.Slice below 12 elements: insertion sort.  Insert s[i] into s[1..i-1]
RECURSIVE InsertBack(_, _)
InsertBack(s, j) ==
    IF j > 1 /\ ResultLess(s[j], s[j - 1])
    THEN InsertBack([s EXCEPT ![j] = s[j - 1], ![j - 1] = s[j]], j - 1)
    ELSE s

RECURSIVE InsertionSort(_, _)
InsertionSort(s, i) ==
    IF i > Len(s) THEN s ELSE InsertionSort(InsertBack(s, i), i + 1)

SortResults(s) == InsertionSort(s, 2)

\* a slip: nothing is filtered out
FilterKeepAll(s) == s

FilterCanMake(s) == SelectSeq(s, LAMBDA r : r.CanMake)

ScoreAll(rs, pset, smap, mm) ==
    [k \in 1..Len(rs) |-> scoreRecipe(rs[k], pset, smap, mm)]

\* the ids resolveNames collects from the results' missing lists
SeenOf(rs) ==
    {m.IngredientID :
        m \in UNION {Range(rs[k].MissingIngredients) : k \in 1..Len(rs)}}

\* from wg.Wait() to resolveNames' fan-out (or its early return)
ScoreAndRank ==
    /\ pc = "subs"
    /\ SubsJoined
    /\ results' = SortResults(ScoreAll(recipes, pantrySet, subsMap, maxMissing))
    /\ filtered' = FilterCanMake(results')
    /\ seen' = SeenOf(filtered')
    /\ IF seen' = {}
       THEN ReturnOk(filtered')
       ELSE pc' = "names" /\ UNCHANGED <<scoreRet, respStatus, respBody>>
    /\ UNCHANGED <<dictSubs, route, allowSubs, maxMissing, pantryRet, recipesRet, nPantryCalls,
                   nRecipeCalls, subCalls, nameCalls, pantryItems, pantrySet, recipes,
                   missingIDs, subG, subLocal, subsMap, wg, nameG, nameLocal, nameMap,
                   nwg>>
    /\ UNCHANGED varsScore

LaunchName(id) ==
    /\ pc = "names"
    /\ id \in seen
    /\ nameG[id] = "idle"
    /\ nameG' = [nameG EXCEPT ![id] = "run"]
    /\ nwg' = nwg + 1
    /\ UNCHANGED <<dictSubs, results, pc, route, allowSubs, maxMissing, pantryRet, recipesRet,
                   nPantryCalls, nRecipeCalls, subCalls, nameCalls, pantryItems,
                   pantrySet, recipes, missingIDs, subG, subLocal, subsMap, wg,
                   filtered, seen, nameLocal, nameMap, scoreRet, respStatus, respBody>>
    /\ UNCHANGED varsScore

\* GetIngredient returns: an error, nil (404), or a detail with its name
NameFetch(id) ==
    /\ nameG[id] = "run"
    /\ nameCalls' = [nameCalls EXCEPT ![id] = @ + 1]
    /\ \/ \E kind \in {"err", "nil"} :
             /\ nameG' = [nameG EXCEPT ![id] = kind]
             /\ nwg' = nwg - 1
             /\ UNCHANGED nameLocal
       \/ \E name \in DetailNames :
             /\ nameG' = [nameG EXCEPT ![id] = "got"]
             /\ nameLocal' = [nameLocal EXCEPT ![id] = name]
             /\ UNCHANGED nwg
    /\ UNCHANGED <<dictSubs, results, pc, route, allowSubs, maxMissing, pantryRet, recipesRet,
                   nPantryCalls, nRecipeCalls, subCalls, pantryItems, pantrySet,
                   recipes, missingIDs, subG, subLocal, subsMap, wg, filtered, seen,
                   nameMap, scoreRet, respStatus, respBody>>
    /\ UNCHANGED varsScore

NameStore(id) ==
    /\ nameG[id] = "got"
    /\ nameMap' = MapPut(nameMap, id, nameLocal[id])
    /\ nameG' = [nameG EXCEPT ![id] = "stored"]
    /\ nwg' = nwg - 1
    /\ UNCHANGED <<nameLocal, dictSubs, results, pc, route, allowSubs, maxMissing, pantryRet, recipesRet,
                   nPantryCalls, nRecipeCalls, subCalls, nameCalls, pantryItems,
                   pantrySet, recipes, missingIDs, subG, subLocal, subsMap, wg,
                   filtered, seen, scoreRet, respStatus, respBody>>
    /\ UNCHANGED varsScore

NamesJoined == (\A id \in seen : nameG[id] # "idle") /\ nwg = 0

\* the copy loop: every record whose id has a name in the map gets it
NamedMissing(m, nmap) ==
    IF m.IngredientID \in DOMAIN nmap
    THEN [m EXCEPT !.Name = nmap[m.IngredientID]]
    ELSE m

\* a slip: the copy loop stops after the first result
WithNamesFirstResult(rs, nmap) ==
    [k \in 1..Len(rs) |->
        IF k > 1 THEN rs[k]
        ELSE [rs[k] EXCEPT !.MissingIngredients =
                 [j \in 1..Len(rs[k].MissingIngredients) |->
                     NamedMissing(rs[k].MissingIngredients[j], nmap)]]]

WithNames(rs, nmap) ==
    [k \in 1..Len(rs) |->
        [rs[k] EXCEPT !.MissingIngredients =
            [j \in 1..Len(rs[k].MissingIngredients) |->
                NamedMissing(rs[k].MissingIngredients[j], nmap)]]]

\* from resolveNames' wg.Wait() to the handler's response
CopyNames ==
    /\ pc = "names"
    /\ NamesJoined
    /\ filtered' = WithNames(filtered, nameMap)
    /\ ReturnOk(filtered')
    /\ UNCHANGED <<results, dictSubs, route, allowSubs, maxMissing, pantryRet, recipesRet, nPantryCalls,
                   nRecipeCalls, subCalls, nameCalls, pantryItems, pantrySet, recipes,
                   missingIDs, subG, subLocal, subsMap, wg, seen, nameG, nameLocal,
                   nameMap, nwg>>
    /\ UNCHANGED varsScore

Next ==
    \/ HandleGetMatches
    \/ HandlePostMatchQuery
    \/ GetPantry
    \/ GetRecipes
    \/ \E id \in Ids : LaunchSub(id)
    \/ \E id \in Ids : SubFetch(id)
    \/ \E id \in Ids : SubStore(id)
    \/ ScoreAndRank
    \/ \E id \in Ids : LaunchName(id)
    \/ \E id \in Ids : NameFetch(id)
    \/ \E id \in Ids : NameStore(id)
    \/ CopyNames

NoResult(recipe) ==
    [Recipe |-> recipe, CoveragePct |-> F64Zero,
     MissingIngredients |-> <<>>, CanMake |-> FALSE]

NoRecipe == [ID |-> 1, Ingredients |-> <<>>]

\* SpecScore's variables, unused by Spec
ScoreIdle ==
    /\ sPc = "off"
    /\ sRecipe = NoRecipe
    /\ sPantry = {}
    /\ sSubs = EmptyMap
    /\ sMax = 0
    /\ sResult = NoResult(NoRecipe)
    /\ sWider = {}
    /\ sResultWider = NoResult(NoRecipe)

Init == RequestIdle /\ ScoreIdle

Spec == Init /\ [][Next]_<<vars, varsScore>>

(***************************************************************************)
(* SpecScore: scoreRecipe applied to one input.                            *)
(***************************************************************************)
InitScore ==
    /\ sPc = "input"
    /\ sRecipe \in [ID : {1}, Ingredients : IngredientLists]
    /\ sPantry \in SUBSET Ids
    /\ sSubs \in SubsMaps
    /\ sMax \in 0..MaxMissingArg
    /\ sResult = NoResult(sRecipe)
    /\ sWider = sPantry
    /\ sResultWider = NoResult(sRecipe)
    /\ RequestIdle

ScoreStep ==
    /\ sPc = "input"
    /\ sResult' = scoreRecipe(sRecipe, sPantry, sSubs, sMax)
    /\ sPc' = "scored"
    /\ UNCHANGED <<sRecipe, sPantry, sSubs, sMax, sWider, sResultWider>>
    /\ UNCHANGED vars

\* scoreRecipe applied again, all else equal, to a pantry set that includes
\* the first one
ScoreWider ==
    /\ sPc = "scored"
    /\ \E wider \in SUBSET Ids :
          /\ sPantry \subseteq wider
          /\ sWider' = wider
          /\ sResultWider' = scoreRecipe(sRecipe, wider, sSubs, sMax)
    /\ sPc' = "rescored"
    /\ UNCHANGED <<sRecipe, sPantry, sSubs, sMax, sResult>>
    /\ UNCHANGED vars

NextScore == ScoreStep \/ ScoreWider

SpecScore == InitScore /\ [][NextScore]_<<vars, varsScore>>

(***************************************************************************)
(* Properties.  What a property needs of a recipe is written out here      *)
(* from the recipe's fields, not taken from the operators above.           *)
(***************************************************************************)
F64OneHundred == F64Div(100, 1)

F64Leq(x, y) == x = y \/ F64Less(x, y)

\* is some substitute listed for id in smap in the pantry set
Covered(id, pset, smap) ==
    /\ id \in DOMAIN smap
    /\ \E j \in 1..Len(smap[id]) : smap[id][j].SubstituteID \in pset

\* the positions of the recipe's required ingredients
RequiredAt(recipe) ==
    {i \in 1..Len(recipe.Ingredients) : ~recipe.Ingredients[i].IsOptional}

\* the positions of the required ingredients that are in the pantry set or
\* covered by a substitute
MatchedAt(recipe, pset, smap) ==
    {i \in RequiredAt(recipe) :
        \/ recipe.Ingredients[i].IngredientID \in pset
        \/ Covered(recipe.Ingredients[i].IngredientID, pset, smap)}

ExpectedMissing(recipe, pset, smap) ==
    LET sel == SelectSeq(recipe.Ingredients,
                         LAMBDA ing : /\ ~ing.IsOptional
                                      /\ ing.IngredientID \notin pset
                                      /\ ~Covered(ing.IngredientID, pset, smap))
    IN  [k \in 1..Len(sel) |->
            [IngredientID |-> sel[k].IngredientID, Name |-> "",
             Quantity |-> sel[k].Quantity, Unit |-> sel[k].Unit]]

MissingIdsIn(result) == {m.IngredientID : m \in Range(result.MissingIngredients)}

C2_Ranked ==
    scoreRet = "ok" =>
        \A i \in 1..Len(respBody), j \in 1..Len(respBody) :
            i < j =>
                \/ F64Less(respBody[j].CoveragePct, respBody[i].CoveragePct)
                \/ /\ respBody[i].CoveragePct = respBody[j].CoveragePct
                   /\ Len(respBody[i].MissingIngredients)
                          <= Len(respBody[j].MissingIngredients)

\* two results tie on coverage, differ in their missing counts, and the
\* catalog's second recipe is returned first
C2_Witness ==
    /\ scoreRet = "ok"
    /\ Len(respBody) = 2
    /\ respBody[1].Recipe.ID = 2
    /\ respBody[1].CoveragePct = respBody[2].CoveragePct
    /\ Len(respBody[1].MissingIngredients) < Len(respBody[2].MissingIngredients)

\* C3: the missing list scoreRecipe returns is exactly the required
\* ingredients that are neither in the pantry set nor covered by a substitute
\* of the map that is in the pantry set, one record per such ingredient, in
\* recipe order; with the empty map it is every required ingredient absent
\* from the pantry set.
C3_MissingExact ==
    sPc = "scored" =>
        /\ sResult.MissingIngredients = ExpectedMissing(sRecipe, sPantry, sSubs)
        /\ sSubs = EmptyMap =>
              Len(sResult.MissingIngredients) =
                  Cardinality({i \in RequiredAt(sRecipe) :
                                  sRecipe.Ingredients[i].IngredientID \notin sPantry})

\* an optional ingredient absent from the pantry and not reported, and a
\* required one reported missing although the map lists two substitutes for it
C3_Witness ==
    /\ sPc = "scored"
    /\ \E i \in 1..Len(sRecipe.Ingredients) :
          /\ sRecipe.Ingredients[i].IsOptional
          /\ sRecipe.Ingredients[i].IngredientID \notin sPantry
          /\ sRecipe.Ingredients[i].IngredientID \notin MissingIdsIn(sResult)
    /\ \E i \in RequiredAt(sRecipe) :
          LET id == sRecipe.Ingredients[i].IngredientID
          IN  /\ id \in DOMAIN sSubs
              /\ Len(sSubs[id]) = 2
              /\ id \in MissingIdsIn(sResult)

TotalRequired(recipe) == Cardinality(RequiredAt(recipe))

MatchedRequired(recipe, pset, smap) == Cardinality(MatchedAt(recipe, pset, smap))

\* C4, as claimed: coveragePct is 100.0 * matched / total in float64 (100.0
\* when total is 0), matched + len(missing) = total, 0 <= coveragePct <= 100.
C4_AsClaimed ==
    sPc = "scored" =>
        LET total == TotalRequired(sRecipe)
            matched == MatchedRequired(sRecipe, sPantry, sSubs)
        IN  /\ sResult.CoveragePct =
                  (IF total = 0 THEN F64OneHundred ELSE F64Div(100 * matched, total))
            /\ matched + Len(sResult.MissingIngredients) = total
            /\ F64Leq(F64Zero, sResult.CoveragePct)
            /\ F64Leq(sResult.CoveragePct, F64OneHundred)

\* C4, amended: coveragePct is (matched / total) * 100.0 in float64, the
\* division first (100.0 when total is 0); matched + len(missing) = total and
\* 0 <= coveragePct <= 100.
C4_CoverageDivisionFirst ==
    sPc = "scored" =>
        LET total == TotalRequired(sRecipe)
            matched == MatchedRequired(sRecipe, sPantry, sSubs)
        IN  /\ sResult.CoveragePct =
                  (IF total = 0 THEN F64OneHundred
                   ELSE F64MulInt(F64Div(matched, total), 100))
            /\ matched + Len(sResult.MissingIngredients) = total
            /\ F64Leq(F64Zero, sResult.CoveragePct)
            /\ F64Leq(sResult.CoveragePct, F64OneHundred)

\* one of three required ingredients matched
C4_Witness ==
    /\ sPc = "scored"
    /\ TotalRequired(sRecipe) = 3
    /\ MatchedRequired(sRecipe, sPantry, sSubs) = 1
    /\ Len(sResult.MissingIngredients) = 2

\* C5: every result scoreRecipe produced in a Score call has
\* canMake = (len(missingIngredients) <= maxMissing), maxMissing being the
\* argument the handler passed to Score.
C5_CanMakeIffWithinTolerance ==
    \A k \in 1..Len(results) :
        results[k].CanMake = (Len(results[k].MissingIngredients) <= maxMissing)

\* POST with a negative max_missing: a recipe without required ingredients is
\* makeable, one with a missing ingredient is not
C5_Witness ==
    /\ route = "POST"
    /\ maxMissing = 0
    /\ \E k \in 1..Len(results) :
          RequiredAt(results[k].Recipe) = {} /\ results[k].CanMake
    /\ \E k \in 1..Len(results) :
          Len(results[k].MissingIngredients) = 1 /\ ~results[k].CanMake

\* C6: a recipe of the catalog without required ingredients is in the list
\* Score returns, with coveragePct 100.0, canMake true and no missing
\* ingredients.
C6_NoRequiredAlwaysReturned ==
    scoreRet = "ok" =>
        \A k \in 1..Len(recipes) :
            RequiredAt(recipes[k]) = {} =>
                \E j \in 1..Len(respBody) :
                    /\ respBody[j].Recipe = recipes[k]
                    /\ respBody[j].CoveragePct = F64OneHundred
                    /\ respBody[j].CanMake
                    /\ respBody[j].MissingIngredients = <<>>

\* the pantry is empty, a recipe with optional ingredients only is returned
\* and the other recipe is dropped
C6_Witness ==
    /\ scoreRet = "ok"
    /\ pantrySet = {}
    /\ Len(recipes) = 2
    /\ Len(respBody) = 1
    /\ Len(respBody[1].Recipe.Ingredients) >= 1
    /\ RequiredAt(respBody[1].Recipe) = {}

NoDictionaryLookup ==
    \A id \in Ids :
        /\ subCalls[id] = 0
        /\ nameCalls[id] = 0
        /\ subG[id] = "idle"
        /\ nameG[id] = "idle"

\* C7 (fail-fast): a failed pantry fetch makes Score return an error and no
\* list, with no recipe fetch and no dictionary lookup issued; a failed recipe
\* fetch makes it return an error and no list, with no dictionary lookup
\* issued; the recipe fetch is issued only after the pantry fetch succeeded.
C7_FailFast ==
    /\ pantryRet = "err" =>
          /\ scoreRet = "err" /\ respStatus = 502
          /\ results = <<>> /\ respBody = <<>>
          /\ nRecipeCalls = 0
          /\ NoDictionaryLookup
    /\ recipesRet = "err" =>
          /\ scoreRet = "err" /\ respStatus = 502
          /\ results = <<>> /\ respBody = <<>>
          /\ NoDictionaryLookup
    /\ nRecipeCalls > 0 => pantryRet = "ok"

C7_Witness ==
    /\ pantryRet = "ok"
    /\ pantryItems # {}
    /\ recipesRet = "err"
    /\ allowSubs
    /\ pc = "done"

\* C8: with both required fetches successful Score returns a list and no
\* error whatever the dictionary lookups did, and a lookup that failed leaves
\* what a lookup without data leaves: no substitute for the id (each required
\* ingredient with that id is reported missing), an empty name for the id.
C8_DictionaryFailuresAbsorbed ==
    (pc = "done" /\ pantryRet = "ok" /\ recipesRet = "ok") =>
        /\ scoreRet = "ok"
        /\ respStatus = 200
        /\ \A id \in Ids :
              subG[id] \in {"err", "nil"} =>
                  \A k \in 1..Len(results) :
                      (\E i \in RequiredAt(results[k].Recipe) :
                          results[k].Recipe.Ingredients[i].IngredientID = id)
                      => id \in MissingIdsIn(results[k])
        /\ \A id \in Ids :
              nameG[id] \in {"err", "nil"} =>
                  \A j \in 1..Len(respBody) :
                      \A m \in Range(respBody[j].MissingIngredients) :
                          m.IngredientID = id => m.Name = ""

\* a substitute lookup failed although the dictionary held a substitute that
\* is in the pantry, a name lookup failed, and a result is returned
C8_Witness ==
    /\ scoreRet = "ok"
    /\ \E id \in Ids :
          /\ subG[id] = "err"
          /\ \E j \in 1..Len(dictSubs[id]) : dictSubs[id][j].SubstituteID \in pantrySet
          /\ nameG[id] = "err"
          /\ \E j \in 1..Len(respBody) : id \in MissingIdsIn(respBody[j])

\* the substitute lists that arrived
ArrivedSubs == [id \in {i \in Ids : subG[i] = "stored"} |-> dictSubs[id]]

\* the dictionary's lists, arrived or not
HeldSubs == [id \in Ids |-> dictSubs[id]]

ArrivedNames == [id \in {i \in Ids : nameG[i] = "stored"} |-> nameLocal[id]]

\* C10 (determinism): the list Score returns is the one the inputs and the
\* outcome of each lookup fix, whatever order the lookups ran and completed
\* in: the catalog scored in order against the substitutes that arrived,
\* sorted, filtered, with the names that arrived.
C10_Deterministic ==
    scoreRet = "ok" =>
        respBody =
            WithNames(
                FilterCanMake(SortResults(
                    ScoreAll(recipes, PantrySetOf(pantryItems), ArrivedSubs,
                             maxMissing))),
                ArrivedNames)

\* two substitute lookups and two name lookups ran, with different outcomes
C10_Witness ==
    /\ scoreRet = "ok"
    /\ subG[1] = "stored"
    /\ subG[2] = "err"
    /\ nameG[1] = "stored"
    /\ nameG[2] = "stored"
    /\ nameLocal[1] # nameLocal[2]
    /\ Len(respBody) = 2

\* C11 (monotonicity): for a recipe, a substitute map and a maxMissing, the
\* coveragePct scored against a pantry set that includes another is greater
\* than or equal to the coveragePct scored against the other.
C11_CoverageMonotone ==
    sPc = "rescored" =>
        /\ sPantry \subseteq sWider
        /\ sResultWider.Recipe = sResult.Recipe
        /\ F64Leq(sResult.CoveragePct, sResultWider.CoveragePct)

\* a required ingredient is in neither pantry set, the wider one holds a
\* substitute for it that the first lacks, and the coverage rises
C11_Witness ==
    /\ sPc = "rescored"
    /\ sWider # sPantry
    /\ \E i \in RequiredAt(sRecipe) :
          LET id == sRecipe.Ingredients[i].IngredientID
          IN  /\ id \notin sWider
              /\ ~Covered(id, sPantry, sSubs)
              /\ Covered(id, sWider, sSubs)
    /\ Len(sResultWider.MissingIngredients) < Len(sResult.MissingIngredients)
    /\ F64Less(sResult.CoveragePct, sResultWider.CoveragePct)

\* is id the id of an ingredient of the recipe with this optional flag
Lists(recipe, id, optional) ==
    \E i \in 1..Len(recipe.Ingredients) :
        /\ recipe.Ingredients[i].IngredientID = id
        /\ recipe.Ingredients[i].IsOptional = optional

\* the ids some recipe of the catalog requires and no pantry item has
RequiredAbsentIds ==
    {id \in Ids :
        /\ \E k \in 1..Len(recipes) : Lists(recipes[k], id, FALSE)
        /\ \A item \in pantryItems : item.IngredientID # id}

\* C12 (substitute prefetch set): in a Score call with allowSubs the
\* substitute lookups issued are one per id that some recipe of the catalog
\* requires and the pantry lacks, none for another id and no second one for
\* the same id; without allowSubs, which is how POST /matches/query calls
\* Score, no substitute lookup is issued.
C12_PrefetchExact ==
    /\ route = "POST" => ~allowSubs
    /\ \A id \in Ids :
          /\ subCalls[id] <= 1
          /\ (subCalls[id] > 0 \/ subG[id] # "idle") =>
                 allowSubs /\ id \in RequiredAbsentIds
          /\ (scoreRet = "ok" /\ allowSubs /\ id \in RequiredAbsentIds) =>
                 subCalls[id] = 1
          /\ ~allowSubs => subCalls[id] = 0

\* both recipes require the same id, looked up once; the other id is absent
\* from the pantry too but only optional, and not looked up
C12_Witness ==
    /\ scoreRet = "ok"
    /\ allowSubs
    /\ Len(recipes) = 2
    /\ \E x \in Ids, y \in Ids :
          /\ Lists(recipes[1], x, FALSE)
          /\ Lists(recipes[2], x, FALSE)
          /\ subCalls[x] = 1
          /\ Lists(recipes[2], y, TRUE)
          /\ \A item \in pantryItems : item.IngredientID # y
          /\ subCalls[y] = 0

\* the lookups of a fan-out that were launched and have not ended
InFlight(g) == {id \in Ids : g[id] \in {"run", "got"}}

\* what a step of the request keeps of the two joins
JoinsKept ==
    /\ (pc = "subs" /\ pc' # "subs") =>
          /\ InFlight(subG) = {}
          /\ \A id \in missingIDs : subG[id] # "idle"
    /\ (pc = "names" /\ pc' # "names") =>
          /\ InFlight(nameG) = {}
          /\ \A id \in seen : nameG[id] # "idle"
    /\ pc # "subs" => subsMap' = subsMap
    /\ pc # "names" => nameMap' = nameMap
    /\ (pc = "names" /\ filtered' # filtered) => nameMap' = nameMap

\* C13 (barrier join): no recipe is scored while a substitute lookup of this
\* call is in flight; the names are not copied and Score does not return
\* while a name lookup of this call is in flight; so no lookup writes to the
\* substitute map or the name map once the orchestrator has gone past the
\* join and reads it.
C13_BarrierJoin ==
    /\ []((pc \in {"names", "done"} \/ results # <<>>) => InFlight(subG) = {})
    /\ [](pc = "done" => InFlight(nameG) = {})
    /\ [][JoinsKept]_<<vars, varsScore>>

\* past the first join with two substitute lists stored, and held at the
\* second: one name is stored, the other lookup has its answer and has not
\* stored it
C13_Witness ==
    /\ pc = "names"
    /\ \A id \in Ids : subG[id] = "stored"
    /\ wg = 0
    /\ nameG[1] = "stored"
    /\ nameG[2] = "got"
    /\ nwg = 1
    /\ scoreRet = "none"

\* the MissingIngredient records of the returned list
ReturnedMissing == UNION {Range(respBody[j].MissingIngredients) : j \in 1..Len(respBody)}

\* C14 (name resolution): when Score returns, every MissingIngredient record
\* of the returned results has the name its id's lookup returned, if that
\* lookup succeeded with a detail, and the empty name if it failed or found
\* nothing, so the records of one id all have one name; one name lookup is
\* issued per id of the returned results' missing lists, and none for
\* another id.
C14_NamesResolved ==
    /\ \A id \in Ids : nameCalls[id] <= 1
    /\ scoreRet = "ok" =>
          /\ \A m \in ReturnedMissing :
                m.Name = (IF nameG[m.IngredientID] = "stored"
                          THEN nameLocal[m.IngredientID]
                          ELSE "")
          /\ \A m1 \in ReturnedMissing, m2 \in ReturnedMissing :
                m1.IngredientID = m2.IngredientID => m1.Name = m2.Name
          /\ \A id \in Ids :
                nameCalls[id] =
                    (IF \E m \in ReturnedMissing : m.IngredientID = id THEN 1 ELSE 0)

\* two results miss the same two ids; the lookup of one id returned a name,
\* which both records have, and the lookup of the other found nothing
C14_Witness ==
    /\ scoreRet = "ok"
    /\ Len(respBody) = 2
    /\ \E x \in Ids, y \in Ids :
          /\ nameG[x] = "stored"
          /\ nameG[y] = "nil"
          /\ \A j \in 1..2 :
                /\ \E m \in Range(respBody[j].MissingIngredients) :
                      m.IngredientID = x /\ m.Name = nameLocal[x] /\ m.Name # ""
                /\ \E m \in Range(respBody[j].MissingIngredients) :
                      m.IngredientID = y /\ m.Name = ""

====
